---- MODULE Spec2Model ----
(***************************************************************************)
(* Model of the contact assistant in src/main.py: the field validators     *)
(* (Phone, Birthday), Record, AddressBook with the upcoming-birthdays      *)
(* query, the input_error decorator, the command handlers and the          *)
(* load/loop/save session of main().                                       *)
(*                                                                         *)
(* A Python str is a sequence of characters; a character is a one-element  *)
(* TLA+ string, and a non-ASCII code point is written by its name          *)
(* ("U+0663" is ARABIC-INDIC DIGIT THREE, "U+00B2" is SUPERSCRIPT TWO).     *)
(* A literal of the program text (a message) is kept as a TLA+ string.     *)
(***************************************************************************)
EXTENDS Integers, Sequences, FiniteSets, TLC

VARIABLES book, file, running, steps, today, input, output, raised, upcoming

vars == <<book, file, running, steps, today, input, output, raised, upcoming>>

(***************************************************************************)
(* Bounds                                                                  *)
(***************************************************************************)
MaxSteps == 4
MinYear == 2023
MaxYear == 2024
MaxTail == 3

(***************************************************************************)
(* Characters and str methods                                              *)
(***************************************************************************)
AsciiDigits == {"0", "1", "2", "3", "4", "5", "6", "7", "8", "9"}

\* characters of Unicode category Nd other than 0-9 (the regex class \d, int())
UnicodeDecimals == {"U+0663"}

\* characters with Numeric_Type=Digit that are not decimals (str.isdigit only)
UnicodeOtherDigits == {"U+00B2"}

DigitVal(c) ==
    CASE c = "0" -> 0 [] c = "1" -> 1 [] c = "2" -> 2 [] c = "3" -> 3
      [] c = "4" -> 4 [] c = "5" -> 5 [] c = "6" -> 6 [] c = "7" -> 7
      [] c = "8" -> 8 [] c = "9" -> 9 [] c = "U+0663" -> 3

DigitChar(n) ==
    CASE n = 0 -> "0" [] n = 1 -> "1" [] n = 2 -> "2" [] n = 3 -> "3"
      [] n = 4 -> "4" [] n = 5 -> "5" [] n = 6 -> "6" [] n = 7 -> "7"
      [] n = 8 -> "8" [] n = 9 -> "9"

\* str.isdigit(): non-empty and every character is a Unicode digit
isdigit(s) ==
    /\ Len(s) > 0
    /\ \A i \in 1..Len(s) :
          s[i] \in AsciiDigits \cup UnicodeDecimals \cup UnicodeOtherDigits

\* the regex class \d of a str pattern
ReDigit(c) == c \in AsciiDigits \cup UnicodeDecimals

(***************************************************************************)
(* Exceptions: what a call raises, NoExc when it returns                   *)
(***************************************************************************)
NoExc == [type |-> "none", msg |-> ""]

ValueError(m) == [type |-> "ValueError", msg |-> m]

KeyError(m) == [type |-> "KeyError", msg |-> m]

IndexError == [type |-> "IndexError", msg |-> "list index out of range"]

PhoneMsg == "Phone number must contain exactly 10 digits."

BirthdayMsg == "Invalid date format. Use DD.MM.YYYY"

DayRangeMsg == "day is out of range for month"

(***************************************************************************)
(* Calendar (datetime.date)                                                *)
(***************************************************************************)
IsLeap(y) == (y % 4 = 0 /\ y % 100 # 0) \/ y % 400 = 0

DaysInMonth(y, m) ==
    IF m = 2 THEN (IF IsLeap(y) THEN 29 ELSE 28)
    ELSE IF m \in {4, 6, 9, 11} THEN 30 ELSE 31

\* date(y, m, d) is constructible
ValidDate(y, m, d) ==
    /\ y \in 1..9999
    /\ m \in 1..12
    /\ d >= 1
    /\ d <= DaysInMonth(y, m)

Date(y, m, d) == [year |-> y, month |-> m, day |-> d]

RECURSIVE DaysBeforeMonth(_, _)
DaysBeforeMonth(y, m) ==
    IF m = 1 THEN 0 ELSE DaysBeforeMonth(y, m - 1) + DaysInMonth(y, m - 1)

DaysBeforeYear(y) ==
    (y - 1) * 365 + ((y - 1) \div 4) - ((y - 1) \div 100) + ((y - 1) \div 400)

toordinal(dt) ==
    DaysBeforeYear(dt.year) + DaysBeforeMonth(dt.year, dt.month) + dt.day

fromordinal(n) ==
    LET y == CHOOSE yy \in (MinYear - 1)..(MaxYear + 2) :
                 DaysBeforeYear(yy) < n /\ n <= DaysBeforeYear(yy + 1)
        r == n - DaysBeforeYear(y)
        m == CHOOSE mm \in 1..12 :
                 DaysBeforeMonth(y, mm) < r
                 /\ r <= DaysBeforeMonth(y, mm) + DaysInMonth(y, mm)
    IN  Date(y, m, r - DaysBeforeMonth(y, m))

\* Monday = 0 ... Sunday = 6
weekday(dt) == (toordinal(dt) + 6) % 7

\* date < date
DateLess(a, b) == toordinal(a) < toordinal(b)

\* date + timedelta(days = k)
AddDays(dt, k) == fromordinal(toordinal(dt) + k)

\* date.replace(year = y) clamping the day to the end of the month
replace_year_clamp(dt, y) ==
    IF ValidDate(y, dt.month, dt.day)
    THEN [exc |-> NoExc, value |-> Date(y, dt.month, dt.day)]
    ELSE [exc |-> NoExc, value |-> Date(y, dt.month, DaysInMonth(y, dt.month))]

\* date.replace(year = y): the new date, or the ValueError it raises
replace_year(dt, y) ==
    IF ValidDate(y, dt.month, dt.day)
    THEN [exc |-> NoExc, value |-> Date(y, dt.month, dt.day)]
    ELSE [exc |-> ValueError(DayRangeMsg), value |-> dt]

(***************************************************************************)
(* datetime.strptime(s, "%d.%m.%Y") and date.strftime("%d.%m.%Y")          *)
(***************************************************************************)
\* %d : 3[0-1] | [1-2]\d | 0[1-9] | [1-9] | " "[1-9]
MatchDay(t) ==
    \/ /\ Len(t) = 2
       /\ \/ t[1] = "3" /\ t[2] \in {"0", "1"}
          \/ t[1] \in {"1", "2"} /\ ReDigit(t[2])
          \/ t[1] = "0" /\ t[2] \in AsciiDigits \ {"0"}
          \/ t[1] = " " /\ t[2] \in AsciiDigits \ {"0"}
    \/ /\ Len(t) = 1
       /\ t[1] \in AsciiDigits \ {"0"}

\* %m : 1[0-2] | 0[1-9] | [1-9]
MatchMonth(t) ==
    \/ /\ Len(t) = 2
       /\ \/ t[1] = "1" /\ t[2] \in {"0", "1", "2"}
          \/ t[1] = "0" /\ t[2] \in AsciiDigits \ {"0"}
    \/ /\ Len(t) = 1
       /\ t[1] \in AsciiDigits \ {"0"}

\* %Y : \d\d\d\d
MatchYear(t) == Len(t) = 4 /\ \A i \in 1..4 : ReDigit(t[i])

\* int(t) of a matched group (surrounding blanks are stripped)
RECURSIVE ToInt(_)
ToInt(t) ==
    IF t = <<>> THEN 0
    ELSE IF t[Len(t)] = " " THEN ToInt(SubSeq(t, 1, Len(t) - 1))
    ELSE ToInt(SubSeq(t, 1, Len(t) - 1)) * 10 + DigitVal(t[Len(t)])

\* the lengths (ld, lm) of the day and month groups of a whole-string match
StrptimeSplits(s) ==
    { sp \in {1, 2} \X {1, 2} :
        /\ Len(s) = sp[1] + sp[2] + 6
        /\ MatchDay(SubSeq(s, 1, sp[1]))
        /\ s[sp[1] + 1] = "."
        /\ MatchMonth(SubSeq(s, sp[1] + 2, sp[1] + 1 + sp[2]))
        /\ s[sp[1] + sp[2] + 2] = "."
        /\ MatchYear(SubSeq(s, sp[1] + sp[2] + 3, sp[1] + sp[2] + 6)) }

strptime(s) ==
    IF StrptimeSplits(s) = {}
    THEN [exc |-> ValueError("time data does not match format"), value |-> Date(0, 0, 0)]
    ELSE LET sp == CHOOSE x \in StrptimeSplits(s) : TRUE
             d == ToInt(SubSeq(s, 1, sp[1]))
             m == ToInt(SubSeq(s, sp[1] + 2, sp[1] + 1 + sp[2]))
             y == ToInt(SubSeq(s, sp[1] + sp[2] + 3, sp[1] + sp[2] + 6))
         IN  IF ValidDate(y, m, d)
             THEN [exc |-> NoExc, value |-> Date(y, m, d)]
             ELSE [exc |-> ValueError(DayRangeMsg), value |-> Date(0, 0, 0)]

Pad2(n) == <<DigitChar(n \div 10), DigitChar(n % 10)>>

Pad4(n) == <<DigitChar(n \div 1000), DigitChar((n \div 100) % 10),
             DigitChar((n \div 10) % 10), DigitChar(n % 10)>>

strftime(dt) == Pad2(dt.day) \o <<".">> \o Pad2(dt.month) \o <<".">> \o Pad4(dt.year)

(***************************************************************************)
(* Fields                                                                  *)
(***************************************************************************)
\* Phone(value): the exception raised and the stored value
Phone(value) ==
    IF ~(isdigit(value) /\ Len(value) = 10)
    THEN [exc |-> ValueError(PhoneMsg), value |-> <<>>]
    ELSE [exc |-> NoExc, value |-> value]

\* Birthday(value)
Birthday(value) ==
    IF strptime(value).exc = NoExc
    THEN [exc |-> NoExc, value |-> value]
    ELSE [exc |-> ValueError(BirthdayMsg), value |-> <<>>]

(***************************************************************************)
(* Record: [name, phones, birthday]; birthday is <<>> (None) or <<value>>  *)
(***************************************************************************)
Record(name) == [name |-> name, phones |-> <<>>, birthday |-> <<>>]

\* add_phone inserting the phone at the front of the list
add_phone_prepend(record, phone) ==
    LET p == Phone(phone)
    IN  IF p.exc # NoExc
        THEN [exc |-> p.exc, record |-> record]
        ELSE [exc |-> NoExc,
              record |-> [record EXCEPT !.phones = <<p.value>> \o @]]

\* Record.add_phone: the record after the call and the exception raised
add_phone(record, phone) ==
    LET p == Phone(phone)
    IN  IF p.exc # NoExc
        THEN [exc |-> p.exc, record |-> record]
        ELSE [exc |-> NoExc,
              record |-> [record EXCEPT !.phones = Append(@, p.value)]]

\* index of the first phone equal to phone, 0 when there is none
FirstIndex(phones, phone) ==
    IF \E i \in 1..Len(phones) : phones[i] = phone
    THEN CHOOSE i \in 1..Len(phones) :
             /\ phones[i] = phone
             /\ \A j \in 1..(i - 1) : phones[j] # phone
    ELSE 0

\* edit_phone dropping the old phone before the new one is validated
edit_phone_drop(record, old_phone, new_phone) ==
    LET i == FirstIndex(record.phones, old_phone)
        p == Phone(new_phone)
        without == [record EXCEPT !.phones =
                      SubSeq(@, 1, i - 1) \o SubSeq(@, i + 1, Len(@))]
    IN  IF i = 0
        THEN [exc |-> ValueError("Old phone not found."), record |-> record]
        ELSE IF p.exc # NoExc
        THEN [exc |-> p.exc, record |-> without]
        ELSE [exc |-> NoExc,
              record |-> [record EXCEPT !.phones[i] = p.value]]

\* Record.edit_phone
edit_phone(record, old_phone, new_phone) ==
    LET i == FirstIndex(record.phones, old_phone)
        p == Phone(new_phone)
    IN  IF i = 0
        THEN [exc |-> ValueError("Old phone not found."), record |-> record]
        ELSE IF p.exc # NoExc
        THEN [exc |-> p.exc, record |-> record]
        ELSE [exc |-> NoExc,
              record |-> [record EXCEPT !.phones[i] = p.value]]

\* Record.add_birthday
add_birthday_rec(record, birthday_str) ==
    LET b == Birthday(birthday_str)
    IN  IF b.exc # NoExc
        THEN [exc |-> b.exc, record |-> record]
        ELSE [exc |-> NoExc,
              record |-> [record EXCEPT !.birthday = <<b.value>>]]

(***************************************************************************)
(* AddressBook: the dict as the sequence of its values in insertion order  *)
(***************************************************************************)
EmptyBook == <<>>

\* AddressBook.find: the position of the record, 0 for None
find(data, name) ==
    IF \E i \in 1..Len(data) : data[i].name = name
    THEN CHOOSE i \in 1..Len(data) : data[i].name = name
    ELSE 0

\* AddressBook.add_record: self.data[record.name.value] = record
add_record(data, record) ==
    IF find(data, record.name) = 0
    THEN Append(data, record)
    ELSE [data EXCEPT ![find(data, record.name)] = record]

\* the occurrence of a birthday that get_upcoming_birthdays builds
Occurrence(bday_date, tday) ==
    LET this == replace_year(bday_date, tday.year)
    IN  IF this.exc # NoExc THEN this
        ELSE IF DateLess(this.value, tday)
        THEN replace_year(this.value, tday.year + 1)
        ELSE this

\* the weekend shift moving a Saturday by one day only
CongratSaturdayPlusOne(dt) ==
    IF weekday(dt) = 5 THEN AddDays(dt, 1)
    ELSE IF weekday(dt) = 6 THEN AddDays(dt, 1)
    ELSE dt

\* the weekend shift of the greeting date
Congrat(dt) ==
    IF weekday(dt) = 5 THEN AddDays(dt, 2)
    ELSE IF weekday(dt) = 6 THEN AddDays(dt, 1)
    ELSE dt

\* the window test leaving out the last day
InWindowExclusive(delta_days, days) == 0 <= delta_days /\ delta_days < days

\* the window test: forward `days` days, today included
InWindow(delta_days, days) == 0 <= delta_days /\ delta_days <= days

\* the loop of get_upcoming_birthdays from record i on, acc = upcoming so far
RECURSIVE UpcomingLoop(_, _, _, _, _)
UpcomingLoop(data, i, tday, days, acc) ==
    IF i > Len(data) THEN [exc |-> NoExc, value |-> acc]
    ELSE IF data[i].birthday = <<>>
    THEN UpcomingLoop(data, i + 1, tday, days, acc)
    ELSE LET bday_date == strptime(data[i].birthday[1]).value
             occ == Occurrence(bday_date, tday)
             delta_days == toordinal(occ.value) - toordinal(tday)
         IN  IF occ.exc # NoExc
             THEN [exc |-> occ.exc, value |-> <<>>]
             ELSE IF InWindow(delta_days, days)
             THEN UpcomingLoop(data, i + 1, tday, days,
                      Append(acc, [name |-> data[i].name,
                                   birthday |-> strftime(Congrat(occ.value))]))
             ELSE UpcomingLoop(data, i + 1, tday, days, acc)

get_upcoming_birthdays(data, tday, days) == UpcomingLoop(data, 1, tday, days, <<>>)

(***************************************************************************)
(* Persistence: pickle.dump / pickle.load as a stream of str tokens, per   *)
(* record: name, number of phones, the phones, "N" or "B" and the birthday *)
(***************************************************************************)
NoFile == [exists |-> FALSE, data |-> <<>>]

\* DumpRecord leaving the birthday out
DumpRecordNoBirthday(r) ==
    <<r.name, <<DigitChar(Len(r.phones))>>>> \o r.phones \o << <<"N">> >>

DumpRecord(r) ==
    <<r.name, <<DigitChar(Len(r.phones))>>>> \o r.phones
      \o (IF r.birthday = <<>> THEN << <<"N">> >> ELSE << <<"B">>, r.birthday[1] >>)

RECURSIVE Dump(_)
Dump(data) ==
    IF data = <<>> THEN <<>> ELSE DumpRecord(Head(data)) \o Dump(Tail(data))

RECURSIVE LoadFrom(_, _)
LoadFrom(toks, acc) ==
    IF toks = <<>> THEN acc
    ELSE LET n == DigitVal(toks[2][1])
             hasB == toks[3 + n] = <<"B">>
             rec == [name |-> toks[1],
                     phones |-> SubSeq(toks, 3, 2 + n),
                     birthday |-> IF hasB THEN <<toks[4 + n]>> ELSE <<>>]
             used == IF hasB THEN 4 + n ELSE 3 + n
         IN  LoadFrom(SubSeq(toks, used + 1, Len(toks)), Append(acc, rec))

save_data(data) == [exists |-> TRUE, data |-> Dump(data)]

load_data(f) == IF f.exists THEN LoadFrom(f.data, <<>>) ELSE EmptyBook

(***************************************************************************)
(* Printed text: a sequence of fragments, a literal of the program or a    *)
(* str value                                                               *)
(***************************************************************************)
Lit(s) == [lit |-> s, str |-> <<>>]

Str(cs) == [lit |-> "", str |-> cs]

\* sep.join(items) for a sequence of str
RECURSIVE JoinStr(_, _)
JoinStr(items, sep) ==
    IF items = <<>> THEN <<>>
    ELSE IF Len(items) = 1 THEN items[1]
    ELSE items[1] \o sep \o JoinStr(Tail(items), sep)

\* "\n".join(lines) for a sequence of fragment sequences
RECURSIVE JoinLines(_)
JoinLines(lines) ==
    IF lines = <<>> THEN <<>>
    ELSE IF Len(lines) = 1 THEN lines[1]
    ELSE lines[1] \o <<Lit("\n")>> \o JoinLines(Tail(lines))

\* Record.__str__
RecordStr(record) ==
    << Lit("Contact name: "), Str(record.name), Lit(", phones: "),
       IF record.phones # <<>> THEN Str(JoinStr(record.phones, <<";", " ">>))
                               ELSE Lit("No phones"),
       Lit(", birthday: "),
       IF record.birthday # <<>> THEN Str(record.birthday[1])
                                 ELSE Lit("No birthday") >>

\* str(e) of a KeyError with one argument is the repr of the argument
KeyErrorStr(e) == "'" \o e.msg \o "'"

\* input_error: the text the decorated handler returns
input_error(res) ==
    IF res.exc.type = "IndexError" THEN <<Lit("Not enough arguments.")>>
    ELSE IF res.exc.type = "KeyError"
    THEN (IF KeyErrorStr(res.exc) # "" THEN <<Lit(KeyErrorStr(res.exc))>>
                                       ELSE <<Lit("Contact not found.")>>)
    ELSE IF res.exc.type = "ValueError" THEN <<Lit(res.exc.msg)>>
    ELSE res.out

(***************************************************************************)
(* Command handlers: [exc, data, out, upcoming] of one call; what a record  *)
(* method did to the record before it raised stays in the book             *)
(***************************************************************************)
Raise(e, data) == [exc |-> e, data |-> data, out |-> <<>>, upcoming |-> <<>>]

Return(out, data) == [exc |-> NoExc, data |-> data, out |-> out, upcoming |-> <<>>]

add_contact(args, data) ==
    IF Len(args) < 2 THEN Raise(IndexError, data)
    ELSE LET name == args[1]
             phone == args[2]
             i == find(data, name)
         IN  IF i = 0
             THEN LET added == add_record(data, Record(name))
                      j == find(added, name)
                      r == add_phone(added[j], phone)
                  IN  IF r.exc # NoExc
                      THEN Raise(r.exc, [added EXCEPT ![j] = r.record])
                      ELSE Return(<<Lit("Contact added.")>>,
                                  [added EXCEPT ![j] = r.record])
             ELSE LET r == add_phone(data[i], phone)
                  IN  IF r.exc # NoExc
                      THEN Raise(r.exc, [data EXCEPT ![i] = r.record])
                      ELSE Return(<<Lit("Contact updated.")>>,
                                  [data EXCEPT ![i] = r.record])

change_contact(args, data) ==
    IF Len(args) < 3 THEN Raise(IndexError, data)
    ELSE LET i == find(data, args[1])
         IN  IF i = 0 THEN Raise(KeyError("Contact not found."), data)
             ELSE LET r == edit_phone(data[i], args[2], args[3])
                  IN  IF r.exc # NoExc
                      THEN Raise(r.exc, [data EXCEPT ![i] = r.record])
                      ELSE Return(<<Lit("Phone changed.")>>,
                                  [data EXCEPT ![i] = r.record])

show_phone(args, data) ==
    IF Len(args) < 1 THEN Raise(IndexError, data)
    ELSE LET i == find(data, args[1])
         IN  IF i = 0 THEN Raise(KeyError("Contact not found."), data)
             ELSE IF data[i].phones = <<>>
             THEN Return(<<Lit("No phones for this contact.")>>, data)
             ELSE Return(<<Str(JoinStr(data[i].phones, <<";", " ">>))>>, data)

show_all(data) ==
    IF data = <<>> THEN Return(<<Lit("AddressBook is empty.")>>, data)
    ELSE Return(JoinLines([k \in 1..Len(data) |-> RecordStr(data[k])]), data)

add_birthday(args, data) ==
    IF Len(args) < 2 THEN Raise(IndexError, data)
    ELSE LET i == find(data, args[1])
         IN  IF i = 0 THEN Raise(KeyError("Contact not found."), data)
             ELSE LET r == add_birthday_rec(data[i], args[2])
                  IN  IF r.exc # NoExc
                      THEN Raise(r.exc, [data EXCEPT ![i] = r.record])
                      ELSE Return(<<Lit("Birthday added.")>>,
                                  [data EXCEPT ![i] = r.record])

show_birthday(args, data) ==
    IF Len(args) < 1 THEN Raise(IndexError, data)
    ELSE LET i == find(data, args[1])
         IN  IF i = 0 THEN Raise(KeyError("Contact not found."), data)
             ELSE IF data[i].birthday = <<>>
             THEN Return(<<Lit("Birthday is not set.")>>, data)
             ELSE Return(<<Str(data[i].birthday[1])>>, data)

birthdays(args, data, tday) ==
    LET up == get_upcoming_birthdays(data, tday, 7)
    IN  IF up.exc # NoExc THEN Raise(up.exc, data)
        ELSE IF up.value = <<>>
        THEN Return(<<Lit("No birthdays in the next 7 days.")>>, data)
        ELSE [ exc |-> NoExc, data |-> data, upcoming |-> up.value,
               out |-> JoinLines([k \in 1..Len(up.value) |->
                          << Str(up.value[k].name), Lit(": "),
                             Str(up.value[k].birthday) >>]) ]

(***************************************************************************)
(* main(): one line of user input is [word, args], the first word and the  *)
(* remaining words of the split line                                       *)
(***************************************************************************)
\* str.lower() on the command words in use
lower(w) ==
    CASE w = "EXIT" -> "exit"
      [] OTHER -> w

parse_input(user_input) == [cmd |-> lower(user_input.word), args |-> user_input.args]

NoInput == [word |-> "", args |-> <<>>]

(***************************************************************************)
(* Inputs                                                                  *)
(***************************************************************************)
Ann == <<"A", "n", "n">>

Bob == <<"B", "o", "b">>

Names == {Ann, Bob}

P1 == <<"1", "2", "3", "4", "5", "6", "7", "8", "9", "0">>

P2 == <<"0", "9", "8", "7", "6", "5", "4", "3", "2", "1">>

PShort == <<"1", "2", "3", "4", "5">>

B1 == <<"1", "5", ".", "0", "6", ".", "2", "0", "2", "0">>

BJan == <<"0", "3", ".", "0", "1", ".", "2", "0", "0", "0">>

BSun == <<"1", "6", ".", "0", "6", ".", "1", "9", "9", "0">>

BLeap == <<"2", "9", ".", "0", "2", ".", "2", "0", "2", "4">>

BBad == <<"3", "1", ".", "0", "2", ".", "2", "0", "2", "4">>

\* the lines a user types: every command with and without its arguments
Lines(names, phones, bdays) ==
    { [word |-> "add", args |-> <<n, p>>] : n \in names, p \in phones }
    \cup { [word |-> "add", args |-> <<n>>] : n \in names }
    \cup { [word |-> "change", args |-> <<n, o, p>>] :
               n \in names, o \in phones, p \in phones }
    \cup { [word |-> "change", args |-> <<n, o>>] : n \in names, o \in phones }
    \cup { [word |-> "phone", args |-> <<n>>] : n \in names }
    \cup { [word |-> "add-birthday", args |-> <<n, b>>] : n \in names, b \in bdays }
    \cup { [word |-> "show-birthday", args |-> <<n>>] : n \in names }
    \cup { [word |-> w, args |-> <<>>] :
               w \in {"phone", "add-birthday", "show-birthday", "all", "birthdays",
                      "hello", "close", "exit", "EXIT", "bogus", ""} }

CliLines == Lines(Names, {P1, P2, PShort}, {B1, BBad})

\* the days of the years MinYear..MaxYear
Dates ==
    { dt \in [year : MinYear..MaxYear, month : 1..12, day : 1..31] :
        ValidDate(dt.year, dt.month, dt.day) }

CliToday == Date(MaxYear, 6, 10)

EndOfInput == [word |-> "<EOF>", args |-> <<>>]

(***************************************************************************)
(* Actions of main()                                                       *)
(***************************************************************************)
\* book = load_data() and the welcome line
Start ==
    /\ ~running
    /\ running' = TRUE
    /\ book' = load_data(file)
    /\ input' = NoInput
    /\ output' = <<Lit("Welcome to the assistant bot!")>>
    /\ raised' = NoExc
    /\ upcoming' = <<>>
    /\ UNCHANGED <<file, steps, today>>

\* print(handler(args, book)) for the result res of the handler
Handle(inp, res) ==
    /\ steps < MaxSteps
    /\ steps' = steps + 1
    /\ input' = inp
    /\ book' = res.data
    /\ raised' = res.exc
    /\ upcoming' = res.upcoming
    /\ output' = input_error(res)
    /\ UNCHANGED <<file, running, today>>

AddCmd(lines) ==
    \E inp \in lines :
        /\ running
        /\ parse_input(inp).cmd = "add"
        /\ Handle(inp, add_contact(parse_input(inp).args, book))

ChangeCmd(lines) ==
    \E inp \in lines :
        /\ running
        /\ parse_input(inp).cmd = "change"
        /\ Handle(inp, change_contact(parse_input(inp).args, book))

PhoneCmd(lines) ==
    \E inp \in lines :
        /\ running
        /\ parse_input(inp).cmd = "phone"
        /\ Handle(inp, show_phone(parse_input(inp).args, book))

AllCmd(lines) ==
    \E inp \in lines :
        /\ running
        /\ parse_input(inp).cmd = "all"
        /\ Handle(inp, show_all(book))

AddBirthdayCmd(lines) ==
    \E inp \in lines :
        /\ running
        /\ parse_input(inp).cmd = "add-birthday"
        /\ Handle(inp, add_birthday(parse_input(inp).args, book))

ShowBirthdayCmd(lines) ==
    \E inp \in lines :
        /\ running
        /\ parse_input(inp).cmd = "show-birthday"
        /\ Handle(inp, show_birthday(parse_input(inp).args, book))

BirthdaysCmd(lines) ==
    \E inp \in lines :
        /\ running
        /\ parse_input(inp).cmd = "birthdays"
        /\ Handle(inp, birthdays(parse_input(inp).args, book, today))

HelloCmd(lines) ==
    \E inp \in lines :
        /\ running
        /\ parse_input(inp).cmd = "hello"
        /\ Handle(inp, Return(<<Lit("How can I help you?")>>, book))

InvalidCmd(lines) ==
    \E inp \in lines :
        /\ running
        /\ parse_input(inp).cmd \notin
               {"close", "exit", "hello", "add", "change", "phone", "all",
                "add-birthday", "show-birthday", "birthdays"}
        /\ Handle(inp, Return(<<Lit("Invalid command.")>>, book))

\* close / exit: save_data(book), the farewell, the loop ends
CloseCmd(lines) ==
    \E inp \in lines :
        /\ running
        /\ parse_input(inp).cmd \in {"close", "exit"}
        /\ steps < MaxSteps
        /\ steps' = steps + 1
        /\ file' = save_data(book)
        /\ running' = FALSE
        /\ input' = inp
        /\ output' = <<Lit("Good bye!")>>
        /\ raised' = NoExc
        /\ upcoming' = <<>>
        /\ UNCHANGED <<book, today>>

\* input() raises at end of input or on an interrupt: the process ends unsaved
Interrupt ==
    /\ running
    /\ steps < MaxSteps
    /\ steps' = steps + 1
    /\ running' = FALSE
    /\ input' = EndOfInput
    /\ raised' = NoExc
    /\ upcoming' = <<>>
    /\ UNCHANGED <<book, file, today, output>>

Init ==
    /\ book = EmptyBook
    /\ file = NoFile
    /\ running = FALSE
    /\ steps = 0
    /\ today = CliToday
    /\ input = NoInput
    /\ output = <<>>
    /\ raised = NoExc
    /\ upcoming = <<>>

Next ==
    \/ Start
    \/ AddCmd(CliLines)
    \/ ChangeCmd(CliLines)
    \/ PhoneCmd(CliLines)
    \/ AllCmd(CliLines)
    \/ AddBirthdayCmd(CliLines)
    \/ ShowBirthdayCmd(CliLines)
    \/ BirthdaysCmd(CliLines)
    \/ HelloCmd(CliLines)
    \/ InvalidCmd(CliLines)
    \/ CloseCmd(CliLines)
    \/ Interrupt

Spec == Init /\ [][Next]_vars

(***************************************************************************)
(* The birthdays command on every day of the years MinYear..MaxYear, for   *)
(* every book of at most two contacts with birthdays from BDays            *)
(***************************************************************************)
BDays == {B1, BSun, BJan, BLeap}

BRecords ==
    { [name |-> n, phones |-> <<P1>>, birthday |-> b] :
        n \in Names, b \in {<<>>} \cup { <<x>> : x \in BDays } }

BirthdayBooks ==
    {<<>>} \cup { <<r>> : r \in BRecords }
    \cup { b \in { <<r1, r2>> : r1 \in BRecords, r2 \in BRecords } :
             b[1].name # b[2].name }

BLines == { [word |-> "birthdays", args |-> <<>>] }

InitBirthdays ==
    /\ book \in BirthdayBooks
    /\ file = save_data(book)
    /\ running = TRUE
    /\ steps = MaxSteps - 1
    /\ today \in Dates
    /\ input = NoInput
    /\ output = <<Lit("Welcome to the assistant bot!")>>
    /\ raised = NoExc
    /\ upcoming = <<>>

NextBirthdays == BirthdaysCmd(BLines)

SpecBirthdays == InitBirthdays /\ [][NextBirthdays]_vars

(***************************************************************************)
(* The field validators called through Record.add_phone and                *)
(* Record.add_birthday on one record, for strings built from pieces        *)
(***************************************************************************)
TailChars == {"9", "0", "U+0663", "U+00B2", "-", "+"}

Tails == UNION { [1..k -> TailChars] : k \in 0..MaxTail }

PhonePrefixes ==
    { <<"1", "2", "3", "4", "5", "6", "7", "8">>,
      <<"+", "2", "3", "4", "5", "6", "7", "8">>,
      <<"1", "2", "3", "4", "5", "6", "7">> }

PhoneStrings == { pre \o t : pre \in PhonePrefixes, t \in Tails }

DayTokens ==
    { <<"1", "5">>, <<"0", "1">>, <<"1">>, <<" ", "1">>, <<"3", "1">>, <<"3", "0">>,
      <<"2", "9">>, <<"0", "0">>, <<"3", "2">>, <<"1", "U+0663">>, <<"0", "1", "5">> }

MonthTokens ==
    { <<"0", "6">>, <<"6">>, <<"0", "2">>, <<"2">>, <<"1", "2">>, <<"1", "3">>,
      <<"0", "0">>, <<"0", "4">> }

YearTokens ==
    { <<"2", "0", "2", "4">>, <<"2", "0", "2", "3">>, <<"2", "0", "2">>,
      <<"2", "0", "2", "4", "4">>, <<"0", "0", "0", "0">> }

Seps == {".", "-"}

BirthdayStrings ==
    { d \o <<s1>> \o m \o <<s2>> \o y :
        d \in DayTokens, s1 \in Seps, m \in MonthTokens, s2 \in Seps, y \in YearTokens }

FieldCalls ==
    { [word |-> "Phone", args |-> <<x>>] : x \in PhoneStrings }
    \cup { [word |-> "Birthday", args |-> <<x>>] : x \in BirthdayStrings }

\* record.add_phone(input)
RecordAddPhone ==
    /\ input.word = "Phone"
    /\ steps < MaxSteps
    /\ steps' = steps + 1
    /\ LET r == add_phone(book[1], input.args[1])
       IN  /\ book' = <<r.record>>
           /\ raised' = r.exc
    /\ UNCHANGED <<file, running, today, input, output, upcoming>>

\* record.add_birthday(input)
RecordAddBirthday ==
    /\ input.word = "Birthday"
    /\ steps < MaxSteps
    /\ steps' = steps + 1
    /\ LET r == add_birthday_rec(book[1], input.args[1])
       IN  /\ book' = <<r.record>>
           /\ raised' = r.exc
    /\ UNCHANGED <<file, running, today, input, output, upcoming>>

InitFields ==
    /\ book \in { <<[Record(Ann) EXCEPT !.birthday = b]>> : b \in {<<>>, <<B1>>} }
    /\ file = NoFile
    /\ running = FALSE
    /\ steps = MaxSteps - 1
    /\ today = CliToday
    /\ input \in FieldCalls
    /\ output = <<>>
    /\ raised = NoExc
    /\ upcoming = <<>>

NextFields == RecordAddPhone \/ RecordAddBirthday

SpecFields == InitFields /\ [][NextFields]_vars

(***************************************************************************)
(* Vocabulary of the properties                                            *)
(***************************************************************************)
\* a string of exactly 10 characters, each one of 0-9
TenAsciiDigits(x) == Len(x) = 10 /\ \A i \in 1..10 : x[i] \in AsciiDigits

\* a string DD.MM.YYYY of ASCII digits that denotes a real calendar date
ExactDate(x) ==
    /\ Len(x) = 10
    /\ x[3] = "." /\ x[6] = "."
    /\ \A i \in {1, 2, 4, 5, 7, 8, 9, 10} : x[i] \in AsciiDigits
    /\ ValidDate(ToInt(SubSeq(x, 7, 10)), ToInt(SubSeq(x, 4, 5)), ToInt(SubSeq(x, 1, 2)))

\* the step is the command cmd with at least n arguments
IsCommand(cmd, n) ==
    /\ running
    /\ steps' = steps + 1
    /\ parse_input(input').cmd = cmd
    /\ Len(input'.args) >= n

NoDuplicateNames(data) ==
    \A i \in 1..Len(data) : \A j \in 1..Len(data) :
        data[i].name = data[j].name => i = j

\* day and month of a stored birthday DD.MM.YYYY
BDay(b) == ToInt(SubSeq(b, 1, 2))

BMonth(b) == ToInt(SubSeq(b, 4, 5))

\* (m, d) comes before the day of tday within a year
EarlierInYear(m, d, tday) == m < tday.month \/ (m = tday.month /\ d < tday.day)

\* the year of the next occurrence of (d, m) seen from tday
NextYear(m, d, tday) == IF EarlierInYear(m, d, tday) THEN tday.year + 1 ELSE tday.year

\* the next occurrence of (d, m) is k days after tday
OccursIn(b, tday, k) ==
    AddDays(tday, k) = Date(NextYear(BMonth(b), BDay(b), tday), BMonth(b), BDay(b))

WithinWindow(b, tday, w) == \E k \in 0..w : OccursIn(b, tday, k)

\* the year in which the occurrence of a 29 February birthday is built
LeapBuildYear(tday) ==
    IF IsLeap(tday.year) /\ EarlierInYear(2, 29, tday) THEN tday.year + 1 ELSE tday.year

IsLeapDay(b) == BDay(b) = 29 /\ BMonth(b) = 2

\* some record's 29 February birthday has no occurrence in its build year
LeapDayFails(data, tday) ==
    \E i \in 1..Len(data) :
        /\ data[i].birthday # <<>>
        /\ IsLeapDay(data[i].birthday[1])
        /\ ~IsLeap(LeapBuildYear(tday))

HasEntry(name) == \E k \in 1..Len(upcoming) : upcoming[k].name = name

\* weekday counted from Monday 10 June 2024
WeekdayOf(dt) == (toordinal(dt) - toordinal(Date(2024, 6, 10)) + 700007) % 7

AfterBirthdays == running /\ input.word = "birthdays"

(***************************************************************************)
(* Properties                                                              *)
(***************************************************************************)
\* C1: add <name> <phone> with a valid phone is an upsert: for a new name it
\* appends one record holding exactly that phone and prints "Contact added.";
\* for an existing name it appends the phone to the end of that record's phones,
\* keeps everything else, prints "Contact updated." and the number of records
\* is unchanged. No two records share a name.
C1_AddIsUpsert ==
    [][ /\ NoDuplicateNames(book')
        /\ (IsCommand("add", 2) /\ TenAsciiDigits(input'.args[2])) =>
             LET name == input'.args[1]
                 phone == input'.args[2]
                 i == find(book, name)
             IN  IF i = 0
                 THEN /\ book' = Append(book, [name |-> name, phones |-> <<phone>>,
                                               birthday |-> <<>>])
                      /\ output' = <<Lit("Contact added.")>>
                 ELSE /\ Len(book') = Len(book)
                      /\ book' = [book EXCEPT ![i].phones = Append(@, phone)]
                      /\ output' = <<Lit("Contact updated.")>> ]_vars

\* C1 witness: an add has updated an existing record that now holds a
\* duplicate phone, in a book of two records
C1_Witness ==
    /\ running
    /\ input.word = "add"
    /\ output = <<Lit("Contact updated.")>>
    /\ Len(book) = 2
    /\ \E i \in 1..2 : book[i].name = input.args[1] /\ book[i].phones = <<P1, P1>>

\* C2 as stated: for every today and every book, birthdays returns an entry
\* for a record exactly when it has a birthday whose next occurrence is 0..7
\* days ahead
C2_Original ==
    AfterBirthdays =>
        \A i \in 1..Len(book) :
            HasEntry(book[i].name) <=>
                (book[i].birthday # <<>> /\ WithinWindow(book[i].birthday[1], today, 7))

\* C2 amended: the same, unless some record's 29 February birthday has no
\* occurrence in the year it is built in; then the call raises and there is no
\* entry at all
C2_Window ==
    AfterBirthdays =>
        IF LeapDayFails(book, today)
        THEN upcoming = <<>> /\ raised.type = "ValueError"
        ELSE /\ raised = NoExc
             /\ \A i \in 1..Len(book) :
                   HasEntry(book[i].name) <=>
                       (book[i].birthday # <<>>
                        /\ WithinWindow(book[i].birthday[1], today, 7))

\* C2 witness: a birthday exactly 7 days ahead is listed and a birthday 8 days
\* ahead is not
C2_Witness ==
    /\ AfterBirthdays
    /\ Len(book) = 2
    /\ book[1].birthday = <<B1>> /\ OccursIn(B1, today, 7)
    /\ book[2].birthday = <<BSun>> /\ OccursIn(BSun, today, 8)
    /\ HasEntry(book[1].name) /\ ~HasEntry(book[2].name)

\* C3: the greeting date of every entry is the next occurrence of the birthday,
\* moved 2 days on from a Saturday and 1 day on from a Sunday; it is never a
\* Saturday or Sunday and never before today
C3_GreetingDate ==
    AfterBirthdays =>
        \A k \in 1..Len(upcoming) :
            LET i == find(book, upcoming[k].name)
                b == book[i].birthday[1]
                occ == Date(NextYear(BMonth(b), BDay(b), today), BMonth(b), BDay(b))
                shift == IF WeekdayOf(occ) = 5 THEN 2
                         ELSE IF WeekdayOf(occ) = 6 THEN 1 ELSE 0
                greeting == strptime(upcoming[k].birthday)
            IN  /\ i # 0
                /\ upcoming[k].birthday = strftime(AddDays(occ, shift))
                /\ greeting.exc = NoExc
                /\ WeekdayOf(greeting.value) \notin {5, 6}
                /\ ~DateLess(greeting.value, today)

\* C3 witness: a Saturday birthday and a Sunday birthday are both greeted on
\* the following Monday
C3_Witness ==
    /\ AfterBirthdays
    /\ Len(upcoming) = 2
    /\ book[1].birthday = <<B1>> /\ book[2].birthday = <<BSun>>
    /\ WeekdayOf(Date(today.year, 6, 15)) = 5
    /\ upcoming[1].birthday = strftime(Date(today.year, 6, 17))
    /\ upcoming[2].birthday = strftime(Date(today.year, 6, 17))

\* C4: a failed change leaves the book as it was, with "Old phone not found."
\* when the old phone is not stored and the phone validation message when the
\* new phone is not 10 digits; a successful change replaces only the first
\* phone equal to the old one, in place
C4_EditPhone ==
    [][ (IsCommand("change", 3) /\ find(book, input'.args[1]) # 0) =>
          LET i == find(book, input'.args[1])
              old == input'.args[2]
              new == input'.args[3]
              phones == book[i].phones
              hits == { k \in 1..Len(phones) : phones[k] = old }
          IN  IF hits = {}
              THEN book' = book /\ output' = <<Lit("Old phone not found.")>>
              ELSE IF ~TenAsciiDigits(new)
              THEN book' = book /\ output' = <<Lit(PhoneMsg)>>
              ELSE LET k == CHOOSE h \in hits : \A g \in hits : h <= g
                   IN  /\ book' = [book EXCEPT ![i].phones =
                                     [n \in 1..Len(phones) |->
                                        IF n = k THEN new ELSE phones[n]]]
                       /\ output' = <<Lit("Phone changed.")>> ]_vars

\* C4 witness: a change whose old phone is stored failed on the new phone
C4_Witness ==
    /\ running
    /\ input.word = "change"
    /\ Len(input.args) = 3
    /\ output = <<Lit(PhoneMsg)>>
    /\ find(book, input.args[1]) # 0
    /\ book[find(book, input.args[1])].phones = <<P2, input.args[2]>>

\* C5: change, phone, add-birthday and show-birthday on a name that is not in
\* the book print exactly Contact not found. and leave the book unchanged
C5_NotFoundText ==
    [][ \A c \in {<<"change", 3>>, <<"phone", 1>>, <<"add-birthday", 2>>,
                  <<"show-birthday", 1>>} :
          (IsCommand(c[1], c[2]) /\ find(book, input'.args[1]) = 0) =>
              (output' = <<Lit("Contact not found.")>> /\ book' = book) ]_vars

\* C6: Phone succeeds, storing the identical string, exactly for the strings of
\* 10 characters 0-9, and fails with the validation message for every other
C6_PhoneValidation ==
    (input.word = "Phone" /\ steps = MaxSteps) =>
        IF TenAsciiDigits(input.args[1])
        THEN raised = NoExc /\ book[1].phones = <<input.args[1]>>
        ELSE raised = ValueError(PhoneMsg) /\ book[1].phones = <<>>

\* C7: Birthday succeeds, storing the string verbatim, only for strings of the
\* exact form DD.MM.YYYY that denote a real date; every other string fails
\* with the format message and leaves the birthday as it was
C7_BirthdayValidation ==
    [][ (input.word = "Birthday" /\ steps' = steps + 1) =>
          IF ExactDate(input.args[1])
          THEN raised' = NoExc /\ book'[1].birthday = <<input.args[1]>>
          ELSE raised' = ValueError(BirthdayMsg) /\ book' = book ]_vars

\* C8: a session started without a file starts with the empty book; a session
\* started after a session that ended with close or exit starts with the book
\* that session held, records in order with their phones and birthday; the
\* file is written only by close and exit
C8_Sessions ==
    [][ /\ (~running /\ running') =>
             /\ (~file.exists => book' = EmptyBook)
             /\ (parse_input(input).cmd \in {"close", "exit"} => book' = book)
        /\ (file' # file) =>
             (running /\ ~running' /\ parse_input(input').cmd \in {"close", "exit"}) ]_vars

\* C8 witness: a session has started with two records, phones and a birthday,
\* after the session that saved them
C8_Witness ==
    /\ running
    /\ input = NoInput
    /\ file.exists
    /\ Len(book) = 2
    /\ book[1].phones # <<>>
    /\ \E i \in 1..2 : book[i].birthday # <<>>

\* C9: with a 29 February birthday in the book and a build year that is not a
\* leap year, get_upcoming_birthdays raises the invalid-date error: no entry is
\* returned for any record and birthdays prints the error text
C9_LeapDayRaises ==
    (AfterBirthdays /\ LeapDayFails(book, today)) =>
        /\ raised = ValueError(DayRangeMsg)
        /\ upcoming = <<>>
        /\ output = <<Lit(DayRangeMsg)>>

\* C9 witness: the error hides a birthday that is inside the window, in a
\* year that is not a leap year and after 29 February of a leap year
C9_Witness ==
    /\ AfterBirthdays
    /\ Len(book) = 2
    /\ book[1].birthday = <<B1>> /\ WithinWindow(B1, today, 7)
    /\ book[2].birthday = <<BLeap>>
    /\ IsLeap(today.year)
    /\ output = <<Lit(DayRangeMsg)>>

\* C10: an add whose phone fails validation leaves the book unchanged, and
\* every record of the book holds at least one phone
C10_FailedAdd ==
    [][ /\ (IsCommand("add", 2) /\ ~TenAsciiDigits(input'.args[2])) => book' = book
        /\ \A i \in 1..Len(book') : book'[i].phones # <<>> ]_vars

====
